---------------------------- MODULE Spec2Model ----------------------------
(***************************************************************************)
(* Model of the Morpho risk report generator: the cron matcher and the     *)
(* scheduler loop (schedule.py), the fetch stage (data_fetcher.py) and the *)
(* report pipeline run from the command line (generate_report.py) and from *)
(* the web form (web_app.py).                                              *)
(*                                                                         *)
(* Several specifications share the module:                                *)
(*   SpecCron   parse_simple_cron applied to bounded inputs                *)
(*   SpecSched  the polling loop of schedule.main against a wall clock     *)
(*   SpecPipe   one pipeline run (CLI, HTML CLI or web job)                *)
(*   SpecFetch  fetch_all_report_data with execute_sql request by request  *)
(*   SpecJobs   the web app's job table with concurrent jobs and polls     *)
(*   SpecDoc    the bad-debt wording of the PDF and HTML documents         *)
(*   SpecShared concurrent web jobs, config and the output directory       *)
(***************************************************************************)
EXTENDS Integers, Sequences, FiniteSets, TLC

VARIABLES
    \* ---- cron matcher (SpecCron) ----
    cron_expr,         \* the fields the operator meant, before they are written out
    cron_str,          \* the argument of parse_simple_cron, a sequence of characters
    cron_now,          \* the value datetime.now() returns inside parse_simple_cron
    cron_result,       \* "none" before the call, then what the call did
    \* ---- scheduler loop (SpecSched) ----
    sched_expr,        \* the fields of the --cron argument
    sched_cron,        \* args.cron, a sequence of characters
    clock,             \* the wall clock, in half minutes since midnight of day 0
    sched_pc,          \* where main's loop is: "poll", "check", "run", "running", "sleep", "stopped", "crashed", "off"
    now_tick,          \* the clock value read at line 113 (0 while not in use)
    current_minute,    \* line 114 (0 while not in use)
    last_run_minute,   \* line 110 and line 116
    start_minute,      \* history: the wall-clock minute of the latest run_report start
    running,           \* number of generate_report.py subprocesses in progress
    returncode,        \* what the latest run_report returned (-1 before the first)
    log_line,          \* the latest line run_report printed: "none", "running", "success", "failed"
    \* ---- one pipeline run (SpecPipe) ----
    entry,             \* "cli" (generate_report.py), "html" (generate_html_report.py), "web" (a web job), "off"
    use_sample,        \* --sample / the request's use_sample
    api_key,           \* --api-key / the request's api_key ("" when not given)
    selected_vaults,   \* the request's vaults (web)
    env_key,           \* os.environ["DUNE_API_KEY"] ("" when unset)
    config_key,        \* config.DUNE_API_KEY once config is imported, "unloaded" before
    tracked_vaults,    \* config.ALL_TRACKED_VAULTS
    pipe_pc,           \* the stage the run is at
    report_data,       \* the dataset mapping: key -> "absent", "empty" or "rows"
    fetch_idx,         \* the next step of fetch_all_report_data
    requested,         \* the dataset keys a request was sent to the analytics API for
    last_outcome,      \* history: how the latest single dataset fetch ended
    charts,            \* the chart keys generate_all_charts returned
    vault_charts,      \* the keys of charts["vault_charts"]
    chart_files,       \* the image file behind each fixed chart key: "none", "placeholder" or "plot"
    artifact,          \* "none" or "written"
    message,           \* the progress message of a running web job
    pipe_status,       \* "running"; web: "done", "error"; CLI: "exit0", "exit1"
    failure,           \* what made the run fail: "", "credential", "KeyError", "write", "fetch"
    \* ---- fetch_all_report_data with execute_sql step by step (SpecFetch) ----
    exec_pc,           \* "off", "next" (between two keys), "submit", "loop", "completed", "returned", "raised", "done"
    poll_interval,     \* execute_sql's parameter, seconds
    max_wait,          \* execute_sql's parameter, seconds
    waited,            \* line 53 and line 57
    exec_requests,     \* history: the requests of the current execute_sql call, in order
    last_state,        \* line 60: the state of the latest status response ("none" before one)
    exec_outcome,      \* how the current call ended ("none" while it runs)
    \* ---- the web app's job table and its worker threads (SpecJobs) ----
    jobs,              \* web_app.jobs: job id -> entry (NoEntry when the id is not a key)
    worker_pc,         \* per submission: "unsubmitted", "start", "fetching", "charting", "building", "finished", "dead"
    worker_job,        \* per submission: the job id api_generate drew for it ("none" before)
    observed,          \* what the latest status poll returned
    last_write,        \* history: who made the latest write to the job table, and how
    worker_result,     \* history, per submission: the terminal record its worker stored ("none" before)
    \* ---- the bad-debt wording of the document stage (SpecDoc) ----
    doc_target,        \* "pdf" (pdf_generator.generate_report) or "html" (generate_html), "off"
    doc_summary,       \* report_data["weekly_summary"]: empty, or its first row's total_bad_debt_usd
    doc_pc,            \* "off", "called", "rendered"
    doc_text,          \* the wording rendered: the TLDR sentence, the Bad Debt Overview paragraph, the first Key Takeaway
    \* ---- what concurrent web jobs share: config and the output directory (SpecShared) ----
    config_vaults,     \* config.ALL_TRACKED_VAULTS, the module attribute
    job_pc,            \* per job: where _run_generation is
    job_selected,      \* per job: the request's vaults
    job_active,        \* per job: active_vaults (line 635)
    job_original,      \* per job: original_vaults (line 655)
    job_seen,          \* per job: config.ALL_TRACKED_VAULTS as it is during the job's fetch
    job_raised,        \* per job: the fetch raised
    wall_minute,       \* the wall clock, in minutes
    writers,           \* per path in REPORTS_DIR: the jobs that wrote the file
    content,           \* per path in REPORTS_DIR: the job whose bytes the file holds (0: no file)
    job_path,          \* per job: output_path (line 671)
    job_reported       \* per job: the filename of its done record and whose bytes the size was taken of

cronVars == <<cron_expr, cron_str, cron_now, cron_result>>

schedVars == <<sched_expr, sched_cron, clock, sched_pc, now_tick, current_minute,
               last_run_minute, start_minute, running, returncode, log_line>>

pipeVars == <<entry, use_sample, api_key, selected_vaults, env_key, config_key,
              tracked_vaults, pipe_pc, report_data, fetch_idx, requested, last_outcome,
              charts, vault_charts, chart_files, artifact, message, pipe_status, failure>>

execVars == <<exec_pc, poll_interval, max_wait, waited, exec_requests, last_state,
              exec_outcome>>

jobsVars == <<jobs, worker_pc, worker_job, observed, last_write, worker_result>>

docVars == <<doc_target, doc_summary, doc_pc, doc_text>>

sharedVars == <<config_vaults, job_pc, job_selected, job_active, job_original, job_seen,
                job_raised, wall_minute, writers, content, job_path, job_reported>>

vars == <<cronVars, schedVars, pipeVars, execVars, jobsVars, docVars, sharedVars>>

\* what the actions of one specification leave alone
notCronVars == <<schedVars, pipeVars, execVars, jobsVars, docVars, sharedVars>>
notSchedVars == <<cronVars, pipeVars, execVars, jobsVars, docVars, sharedVars>>
notPipeVars == <<cronVars, schedVars, execVars, jobsVars, docVars, sharedVars>>
notFetchVars == <<cronVars, schedVars, jobsVars, docVars, sharedVars>>
notJobsVars == <<cronVars, schedVars, pipeVars, execVars, docVars, sharedVars>>
notDocVars == <<cronVars, schedVars, pipeVars, execVars, jobsVars, sharedVars>>
notSharedVars == <<cronVars, schedVars, pipeVars, execVars, jobsVars, docVars>>

-----------------------------------------------------------------------------
(* Strings are sequences of one-character strings.                          *)

Digits == <<"0", "1", "2", "3", "4", "5", "6", "7", "8", "9">>

IsDigit(c) == \E i \in 1..Len(Digits) : Digits[i] = c

DigitVal(c) == (CHOOSE i \in 1..Len(Digits) : Digits[i] = c) - 1

\* str.isspace for the characters of the model's alphabet
IsSpace(c) == c \in {" ", "\t"}

RECURSIVE lstrip(_)
lstrip(s) ==
    IF s # <<>> /\ IsSpace(Head(s)) THEN lstrip(Tail(s)) ELSE s

RECURSIVE rstrip(_)
rstrip(s) ==
    IF s # <<>> /\ IsSpace(s[Len(s)]) THEN rstrip(SubSeq(s, 1, Len(s) - 1)) ELSE s

\* str.strip()
strip(s) == rstrip(lstrip(s))

RECURSIVE SplitFrom(_, _, _, _)
SplitFrom(s, i, cur, acc) ==
    IF i > Len(s)
    THEN IF cur = <<>> THEN acc ELSE Append(acc, cur)
    ELSE IF IsSpace(s[i])
         THEN SplitFrom(s, i + 1, <<>>, IF cur = <<>> THEN acc ELSE Append(acc, cur))
         ELSE SplitFrom(s, i + 1, Append(cur, s[i]), acc)

\* str.split() with no argument: runs of whitespace separate, no empty pieces
split(s) == SplitFrom(s, 1, <<>>, <<>>)

RECURSIVE SplitOnFrom(_, _, _, _, _)
SplitOnFrom(s, sep, i, cur, acc) ==
    IF i > Len(s)
    THEN Append(acc, cur)
    ELSE IF s[i] = sep
         THEN SplitOnFrom(s, sep, i + 1, <<>>, Append(acc, cur))
         ELSE SplitOnFrom(s, sep, i + 1, Append(cur, s[i]), acc)

\* str.split(sep): every separator cuts, empty pieces are kept
split_on(s, sep) == SplitOnFrom(s, sep, 1, <<>>, <<>>)

RECURSIVE DecimalValue(_)
DecimalValue(s) ==
    IF s = <<>> THEN 0
    ELSE 10 * DecimalValue(SubSeq(s, 1, Len(s) - 1)) + DigitVal(s[Len(s)])

\* int(s): surrounding whitespace is ignored, then a non-empty run of digits
\* is required (the alphabet of the model has no sign and no underscore)
int(s) ==
    LET t == strip(s) IN
    IF t # <<>> /\ \A i \in 1..Len(t) : IsDigit(t[i])
    THEN [err |-> FALSE, val |-> DecimalValue(t)]
    ELSE [err |-> TRUE, val |-> 0]

startswith(s, p) == Len(s) >= Len(p) /\ SubSeq(s, 1, Len(p)) = p

Contains(s, c) == \E i \in 1..Len(s) : s[i] = c

-----------------------------------------------------------------------------
(* schedule.parse_simple_cron                                               *)

\* line 55 with the mutation "fewer than five"
BadFieldCount_Less(parts) == Len(parts) < 5

\* line 55: len(parts) != 5
BadFieldCount(parts) == Len(parts) # 5

\* the remap of line 62 left out
CronWeekday_NoRemap(weekday) == weekday

\* line 62: Python's weekday() (0 = Monday) to cron's (0 = Sunday)
CronWeekday(weekday) == (weekday + 1) % 7

\* lines 58-62: the five values compared, in the order of the cron fields
NowFields(now) ==
    <<now.minute, now.hour, now.day, now.month, CronWeekday(now.weekday)>>

\* line 69 with equality in place of divisibility
StepMatches_Equal(field_val, divisor) == field_val = divisor

\* line 69: field_val % divisor == 0
StepMatches(field_val, divisor) == field_val % divisor = 0

\* line 73: field_val in allowed
ListMatches(field_val, allowed) == \E i \in 1..Len(allowed) : allowed[i] = field_val

\* lines 65-77, one pass of the loop body: "continue" goes on to the next
\* field, "False" is the early return, the others are the exception raised
FieldStep(field_val, cron_part) ==
    IF cron_part = <<"*">> THEN "continue"
    ELSE IF startswith(cron_part, <<"*", "/">>)
    THEN LET divisor == int(SubSeq(cron_part, 3, Len(cron_part))) IN
         IF divisor.err THEN "ValueError"
         ELSE IF divisor.val = 0 THEN "ZeroDivisionError"
         ELSE IF ~StepMatches(field_val, divisor.val) THEN "False"
         ELSE "continue"
    ELSE IF Contains(cron_part, ",")
    THEN LET items == split_on(cron_part, ",")
             parsed == [i \in 1..Len(items) |-> int(items[i])] IN
         IF \E i \in 1..Len(items) : parsed[i].err THEN "ValueError"
         ELSE IF ~ListMatches(field_val, [i \in 1..Len(items) |-> parsed[i].val])
              THEN "False"
              ELSE "continue"
    ELSE LET v == int(cron_part) IN
         IF v.err THEN "ValueError"
         ELSE IF field_val # v.val THEN "False"
         ELSE "continue"

RECURSIVE FieldLoop(_, _, _)
\* line 64: for field_val, cron_part in zip(fields, parts), then line 78
FieldLoop(fields, parts, i) ==
    IF i > Len(fields) \/ i > Len(parts) THEN "True"
    ELSE LET r == FieldStep(fields[i], parts[i]) IN
         IF r = "continue" THEN FieldLoop(fields, parts, i + 1) ELSE r

\* The call's outcome: "True", "False", or the name of the exception raised.
\* now is the value datetime.now() returns at line 58.
parse_simple_cron(s, now) ==
    LET parts == split(strip(s)) IN
    IF BadFieldCount(parts) THEN "ValueError"
    ELSE FieldLoop(NowFields(now), parts, 1)

-----------------------------------------------------------------------------
(* Inputs of the cron matcher: an expression is a sequence of fields, each  *)
(* "*", "*/N", a comma list, an integer, or text that is none of these; it  *)
(* is written out as the string the operator passes with --cron.            *)

MaxFields == 6

AnyField == [kind |-> "any"]
StepField(n) == [kind |-> "step", n |-> n]
ListField(vals) == [kind |-> "list", vals |-> vals]
IntField(v) == [kind |-> "int", v |-> v]
BadField(text) == [kind |-> "bad", text |-> text]

RECURSIVE Decimal(_)
\* the decimal digits of a natural number
Decimal(n) ==
    IF n < 10 THEN <<Digits[n + 1]>>
    ELSE Decimal(n \div 10) \o <<Digits[(n % 10) + 1]>>

RECURSIVE JoinWith(_, _)
JoinWith(pieces, sep) ==
    IF pieces = <<>> THEN <<>>
    ELSE IF Len(pieces) = 1 THEN pieces[1]
    ELSE pieces[1] \o sep \o JoinWith(Tail(pieces), sep)

FieldText(f) ==
    CASE f.kind = "any"  -> <<"*">>
      [] f.kind = "step" -> <<"*", "/">> \o Decimal(f.n)
      [] f.kind = "list" -> JoinWith([i \in 1..Len(f.vals) |-> Decimal(f.vals[i])], <<",">>)
      [] f.kind = "int"  -> Decimal(f.v)
      [] f.kind = "bad"  -> f.text

\* The command-line string of an expression: the fields separated by sep,
\* between lead and trail.
CronText(expr, lead, sep, trail) ==
    lead \o JoinWith([i \in 1..Len(expr) |-> FieldText(expr[i])], sep) \o trail

Spacings ==
    { [lead |-> <<>>, sep |-> <<" ">>, trail |-> <<>>],
      [lead |-> <<" ">>, sep |-> <<" ", "\t">>, trail |-> <<" ">>] }

FieldTokens ==
    { AnyField, StepField(2), ListField(<<1, 3>>), IntField(1), BadField(<<"x">>) }

\* the first n fields of a five-field core, continued with "*" past the fifth
TakeFields(core, n) == [i \in 1..n |-> IF i <= 5 THEN core[i] ELSE AnyField]

GeneralExprs ==
    { TakeFields(core, n) : core \in [1..5 -> FieldTokens], n \in 0..MaxFields }

GeneralTimes ==
    [minute : {1, 2, 3}, hour : {1, 2}, day : {1}, month : {1}, weekday : {0, 6}]

\* "*/15 * * * *"
EveryFifteen == <<StepField(15), AnyField, AnyField, AnyField, AnyField>>

\* "0 9 * * 1", the scheduler's default (schedule.py line 83)
MondayNine == <<IntField(0), IntField(9), AnyField, AnyField, IntField(1)>>

SweepExprs == {EveryFifteen, MondayNine}

SweepTimes ==
    [minute : 0..59, hour : {8, 9}, day : {1}, month : {1}, weekday : 0..6]

CronInputs == (GeneralExprs \X GeneralTimes) \cup (SweepExprs \X SweepTimes)

CronInit ==
    /\ \E in \in CronInputs, sp \in Spacings :
          /\ cron_expr = in[1]
          /\ cron_str = CronText(in[1], sp.lead, sp.sep, sp.trail)
          /\ cron_now = in[2]
    /\ cron_result = "none"

\* schedule.parse_simple_cron(cron_str) called once, at time cron_now
CallParse ==
    /\ cron_result = "none"
    /\ cron_result' = parse_simple_cron(cron_str, cron_now)
    /\ UNCHANGED <<cron_expr, cron_str, cron_now>>
    /\ UNCHANGED notCronVars



-----------------------------------------------------------------------------
(* The wall clock of the scheduler. One tick is the 30 seconds of line 118; *)
(* day 0 is a Monday, the first of the month.                               *)

SleepSeconds == 30
MinutesPerHour == 60

TicksPerMinute == 60 \div SleepSeconds
MinutesPerDay == 24 * MinutesPerHour

MaxDays == 2
MaxRunTicks == 3

MaxTick == MaxDays * MinutesPerDay * TicksPerMinute - 1

\* the wall-clock minute a tick lies in, counted from midnight of day 0
AbsMinute(tick) == tick \div TicksPerMinute

\* datetime.now() at a tick: the attributes parse_simple_cron and main read
TimeAt(tick) ==
    LET m == AbsMinute(tick)
        d == m \div MinutesPerDay
        mod == m % MinutesPerDay IN
    [minute  |-> mod % MinutesPerHour,
     hour    |-> mod \div MinutesPerHour,
     day     |-> 1 + d,
     month   |-> 1,
     weekday |-> d % 7]

TickAt(day, hour, minute, half) ==
    ((day * MinutesPerDay) + (hour * MinutesPerHour) + minute) * TicksPerMinute + half

\* the moments the scheduler is started at: 08:59:00 and 08:59:30 of day 0
StartTicks == {TickAt(0, 8, 59, 0), TickAt(0, 8, 59, 1)}

\* "0 9 * * *"
DailyNine == <<IntField(0), IntField(9), AnyField, AnyField, AnyField>>

\* "0 9 * *": one field short
FourFields == <<IntField(0), IntField(9), AnyField, AnyField>>

\* "0 9 * * x": the fifth field is none of the supported forms
BadWeekday == <<IntField(0), IntField(9), AnyField, AnyField, BadField(<<"x">>)>>

SchedExprs == {MondayNine, DailyNine, FourFields, BadWeekday}

PlainText(expr) == CronText(expr, <<>>, <<" ">>, <<>>)

\* The scheduler is not running (the other specifications).
SchedIdle ==
    /\ sched_expr = <<>>
    /\ sched_cron = <<>>
    /\ clock = 0
    /\ sched_pc = "off"
    /\ now_tick = 0
    /\ current_minute = 0
    /\ last_run_minute = -1
    /\ start_minute = -1
    /\ running = 0
    /\ returncode = -1
    /\ log_line = "none"

\* schedule.main up to line 110, without --once
SchedInit ==
    /\ \E e \in SchedExprs : sched_expr = e /\ sched_cron = PlainText(e)
    /\ clock \in StartTicks
    /\ sched_pc = "poll"
    /\ now_tick = 0
    /\ current_minute = 0
    /\ last_run_minute = -1
    /\ start_minute = -1
    /\ running = 0
    /\ returncode = -1
    /\ log_line = "none"

\* the guard of line 115 dropped
BucketDiffers_Always(current, last) == TRUE

\* line 115, left operand: current_minute != last_run_minute
BucketDiffers(current, last) == current # last

\* the exit codes of generate_report.py: 0, or 1 from sys.exit(1) and from
\* an uncaught exception
ExitCodes == {0, 1}

\* lines 41-44: the line printed for an exit code
ReportLine(code) == IF code = 0 THEN "success" ELSE "failed"

\* line 114: now.hour * 60 + now.minute
MinuteBucket(now) == now.hour * MinutesPerHour + now.minute

\* lines 113-114: read the clock, compute the minute bucket
Poll ==
    /\ sched_pc = "poll"
    /\ now_tick' = clock
    /\ current_minute' = MinuteBucket(TimeAt(clock))
    /\ sched_pc' = "check"
    /\ UNCHANGED notSchedVars
    /\ UNCHANGED <<sched_expr, sched_cron, clock, last_run_minute, start_minute,
                   running, returncode, log_line>>

\* line 115, left operand false: the bucket is the last-triggered one and
\* parse_simple_cron is not called. now and current_minute are not read
\* again before line 113 assigns them anew.
CheckSameBucket ==
    /\ sched_pc = "check"
    /\ ~BucketDiffers(current_minute, last_run_minute)
    /\ sched_pc' = "sleep"
    /\ now_tick' = 0
    /\ current_minute' = 0
    /\ UNCHANGED notSchedVars
    /\ UNCHANGED <<sched_expr, sched_cron, clock, last_run_minute, start_minute,
                   running, returncode, log_line>>

\* lines 115-116: the bucket differs, parse_simple_cron reads the clock again
\* (line 58); the clock may have moved on by one tick since line 113. A True
\* result records the bucket and starts run_report; an exception leaves the
\* loop (only KeyboardInterrupt is caught).
CheckCron ==
    /\ sched_pc = "check"
    /\ BucketDiffers(current_minute, last_run_minute)
    /\ \E d \in {0, 1} :
          /\ clock + d <= MaxTick
          /\ clock' = clock + d
          /\ LET r == parse_simple_cron(sched_cron, TimeAt(clock + d)) IN
             /\ sched_pc' = CASE r = "True" -> "run"
                              [] r = "False" -> "sleep"
                              [] OTHER -> "crashed"
             /\ last_run_minute' = IF r = "True" THEN current_minute ELSE last_run_minute
             /\ start_minute' = IF r = "True" THEN AbsMinute(clock + d) ELSE start_minute
    /\ now_tick' = 0
    /\ current_minute' = 0
    /\ UNCHANGED notSchedVars
    /\ UNCHANGED <<sched_expr, sched_cron, running, returncode, log_line>>

\* line 117, run_report lines 29-40: the command is built, the "Running"
\* line printed and the subprocess started; subprocess.run does not return
\* before the subprocess has ended
RunStart ==
    /\ sched_pc = "run"
    /\ running' = running + 1
    /\ log_line' = "running"
    /\ sched_pc' = "running"
    /\ UNCHANGED notSchedVars
    /\ UNCHANGED <<sched_expr, sched_cron, clock, now_tick, current_minute,
                   last_run_minute, start_minute, returncode>>

\* run_report lines 40-45: the subprocess ends after some time with an exit
\* code; the loop was blocked meanwhile. The line for the code is printed
\* and the code returned; main (line 117) does not look at it.
RunReport ==
    /\ sched_pc = "running"
    /\ \E d \in 0..MaxRunTicks :
          /\ clock + d <= MaxTick
          /\ clock' = clock + d
    /\ \E code \in ExitCodes :
          /\ returncode' = code
          /\ log_line' = ReportLine(code)
    /\ running' = running - 1
    /\ sched_pc' = "sleep"
    /\ UNCHANGED notSchedVars
    /\ UNCHANGED <<sched_expr, sched_cron, now_tick, current_minute, last_run_minute,
                   start_minute>>

\* line 118: time.sleep(30)
Sleep ==
    /\ sched_pc = "sleep"
    /\ clock + 1 <= MaxTick
    /\ clock' = clock + 1
    /\ sched_pc' = "poll"
    /\ UNCHANGED notSchedVars
    /\ UNCHANGED <<sched_expr, sched_cron, now_tick, current_minute, last_run_minute,
                   start_minute, running, returncode, log_line>>

\* lines 119-121: Ctrl+C anywhere in the loop body ends the loop; raised
\* inside subprocess.run it has the subprocess killed first
Interrupt ==
    /\ sched_pc \in {"poll", "check", "run", "running", "sleep"}
    /\ sched_pc' = "stopped"
    /\ running' = 0
    /\ UNCHANGED notSchedVars
    /\ UNCHANGED <<sched_expr, sched_cron, clock, now_tick, current_minute,
                   last_run_minute, start_minute, returncode, log_line>>

SchedNext ==
    \/ Poll
    \/ CheckSameBucket
    \/ CheckCron
    \/ RunStart
    \/ RunReport
    \/ Sleep
    \/ Interrupt

-----------------------------------------------------------------------------
(* The report pipeline: data_fetcher.py, generate_report.main,              *)
(* generate_html_report.main and web_app._run_generation.                   *)

\* config.QUERY_IDS, in the order of the dict
QUERY_IDS ==
    <<"liquidation_stats_24h", "bad_debt_stats_24h", "unrealized_bad_debt",
      "bad_debt_events_24h">>

\* fetch_all_report_data, lines 77-124: the dataset keys in the order they
\* are fetched, and the method each one is fetched with
FetchPlan ==
    << [key |-> "weekly_summary", via |-> "execute_sql"],
       [key |-> "daily_liquidations", via |-> "execute_sql"],
       [key |-> "liquidations_by_chain", via |-> "execute_sql"],
       [key |-> "bad_debt_by_chain", via |-> "execute_sql"] >>
    \o [i \in 1..Len(QUERY_IDS) |-> [key |-> QUERY_IDS[i], via |-> "get_latest_result"]]

\* every key a step of the pipeline looks up in report_data
DataKeys == {FetchPlan[i].key : i \in 1..Len(FetchPlan)} \cup {"vault_liquidity"}

NoData == [k \in DataKeys |-> "absent"]

\* data_fetcher.generate_sample_data, lines 136-204: the keys it sets, and
\* whether the table it sets is empty
\* the sample data with the bad_debt_by_chain table left out
generate_sample_data_MissingKey ==
    [k \in DataKeys |->
        CASE k \in {"weekly_summary", "daily_liquidations", "liquidations_by_chain",
                    "liquidation_stats_24h", "bad_debt_stats_24h",
                    "unrealized_bad_debt"} -> "rows"
          [] k \in {"bad_debt_events_24h"} -> "empty"
          [] OTHER -> "absent"]

generate_sample_data ==
    [k \in DataKeys |->
        CASE k \in {"weekly_summary", "daily_liquidations", "liquidations_by_chain",
                    "liquidation_stats_24h", "bad_debt_stats_24h",
                    "unrealized_bad_debt"} -> "rows"
          [] k \in {"bad_debt_by_chain", "bad_debt_events_24h"} -> "empty"
          [] OTHER -> "absent"]

\* The ways one dataset fetch ends. execute_sql (lines 39-70): rows, no rows,
\* raise_for_status, no execution id, FAILED or CANCELLED, the timeout.
\* get_latest_result (lines 30-37): rows, no rows, raise_for_status.
FetchErrors == {"http_error", "no_execution_id", "query_failed", "timeout"}

Outcomes(via) ==
    IF via = "execute_sql"
    THEN {"rows", "empty"} \cup FetchErrors
    ELSE {"rows", "empty", "http_error"}

\* the handlers of fetch_all_report_data catching only TimeoutError
Caught_OnlyTimeout(outcome) == outcome = "timeout"

\* lines 83, 93, 103, 113, 122: except Exception catches each of them
Caught(outcome) == outcome \in FetchErrors

\* the handlers logging the warning without assigning the empty table
StoredTable_NoDefault(outcome) ==
    IF outcome \in {"rows", "empty"} THEN outcome ELSE "absent"

\* what report_data[key] is after the fetch of one key: the DataFrame
\* returned (lines 37, 65) or the empty one of the handler (line 85)
StoredTable(outcome) == IF outcome = "rows" THEN "rows" ELSE "empty"

\* DuneDataFetcher.__init__ accepting an empty key
CredentialMissing_Never(key) == FALSE

\* data_fetcher.py line 20: if not self.api_key
CredentialMissing(key) == key = ""

\* data_fetcher.py line 19: api_key or DUNE_API_KEY
ChosenKey(arg, from_config) == IF arg # "" THEN arg ELSE from_config

\* The vault names of config.ALL_TRACKED_VAULTS, which web_app.py line 632
\* and pdf_generator.py line 371 import.
ALL_TRACKED_VAULTS == {"Vault A", "Vault B"}

\* web_app.py line 635
ActiveVaults(selected) == {v \in ALL_TRACKED_VAULTS : v \in selected}

\* the fixed chart keys of generate_all_charts
FixedCharts == {"kpi", "daily_liquidations", "liq_by_chain", "bad_debt"}

NoCharts == [k \in FixedCharts |-> "none"]

\* report_data.get(key, pd.DataFrame())
Table(data, key) == IF data[key] = "absent" THEN "empty" ELSE data[key]

\* create_daily_liquidation_chart: the placeholder of _create_no_data_chart
\* for an empty table (lines 57-59), the stacked bars otherwise; either way
\* the file is saved
create_daily_liquidation_chart(daily_df) ==
    IF daily_df = "empty" THEN "placeholder" ELSE "plot"

\* the chart function returning the path for an empty table without drawing
\* the placeholder
create_liquidation_by_chain_chart_Skips(chain_df) ==
    IF chain_df = "empty" THEN "none" ELSE "plot"

\* create_liquidation_by_chain_chart (lines 114-116, then 118-145)
create_liquidation_by_chain_chart(chain_df) ==
    IF chain_df = "empty" THEN "placeholder" ELSE "plot"

\* create_bad_debt_summary_chart: the "$0" text or the pie on the left, the
\* table or "No unrealized bad debt" on the right, one figure saved
create_bad_debt_summary_chart(bad_debt_df, unrealized_df) == "plot"

\* create_kpi_card_image: the cards (or the blank image of the plain style),
\* with the zero metrics of lines 287-293 for an empty summary
create_kpi_card_image(summary) == "plot"

\* generate_all_charts, the four fixed keys (chart_generator.py lines 283-317
\* and the same calls in morpho-report/morpho-report/chart_generator.py)
generate_all_charts(data) ==
    [k \in FixedCharts |->
        CASE k = "kpi" -> create_kpi_card_image(Table(data, "weekly_summary"))
          [] k = "daily_liquidations" ->
                create_daily_liquidation_chart(Table(data, "daily_liquidations"))
          [] k = "liq_by_chain" ->
                create_liquidation_by_chain_chart(Table(data, "liquidations_by_chain"))
          [] OTHER ->
                create_bad_debt_summary_chart(Table(data, "bad_debt_by_chain"),
                                              Table(data, "unrealized_bad_debt"))]

\* morpho-report/morpho-report/chart_generator.py lines 319-326: one chart per
\* key of report_data.get("vault_liquidity", {})
VaultChartKeys(data, selected) ==
    IF data["vault_liquidity"] = "absent" THEN {}
    ELSE selected \cap ALL_TRACKED_VAULTS

\* how a failed run ends: sys.exit(1) or a traceback in the CLI, the error
\* entry of web_app.py lines 686-692 in a web job (the entry is replaced
\* whole, so it holds no message any more)
Failed == IF entry = "web" THEN "error" ELSE "exit1"

\* generate_report.py line 96 falls off main; web_app.py lines 676-684
Succeeded == IF entry = "web" THEN "done" ELSE "exit0"

\* the messages of lines 663 and 668 exchanged
ProgressMessage_Swapped(stage) ==
    CASE stage = "fetch" -> "Fetching data..."
      [] stage = "charts" -> "Building PDF..."
      [] OTHER -> "Generating charts..."

\* the message a web job sets as it enters a stage (lines 638, 663, 668)
ProgressMessage(stage) ==
    CASE stage = "fetch" -> "Fetching data..."
      [] stage = "charts" -> "Generating charts..."
      [] OTHER -> "Building PDF..."

\* No pipeline is running (the other specifications).
PipeIdle ==
    /\ entry = "off"
    /\ use_sample = FALSE
    /\ api_key = ""
    /\ selected_vaults = {}
    /\ env_key = ""
    /\ config_key = "unloaded"
    /\ tracked_vaults = ALL_TRACKED_VAULTS
    /\ pipe_pc = "off"
    /\ report_data = NoData
    /\ fetch_idx = 1
    /\ requested = {}
    /\ last_outcome = "none"
    /\ charts = {}
    /\ vault_charts = {}
    /\ chart_files = NoCharts
    /\ artifact = "none"
    /\ message = ""
    /\ pipe_status = "running"
    /\ failure = ""

\* A run is requested: the command line is parsed, or api_generate (lines
\* 587-606) has stored the job as running and started its thread.
PipeInit ==
    /\ entry \in {"cli", "html", "web"}
    /\ use_sample \in BOOLEAN
    /\ api_key \in {"", "key"}
    /\ selected_vaults \in (IF entry = "web" THEN SUBSET ALL_TRACKED_VAULTS ELSE {{}})
    /\ env_key \in {"", "envkey"}
    /\ config_key = "unloaded"
    /\ tracked_vaults = ALL_TRACKED_VAULTS
    /\ pipe_pc = "start"
    /\ report_data = NoData
    /\ fetch_idx = 1
    /\ requested = {}
    /\ last_outcome = "none"
    /\ charts = {}
    /\ vault_charts = {}
    /\ chart_files = NoCharts
    /\ artifact = "none"
    /\ message = IF entry = "web" THEN "Initializing..." ELSE ""
    /\ pipe_status = "running"
    /\ failure = ""

\* generate_report.main lines 35-56, generate_html_report.main lines 606-623
CliBegin ==
    /\ pipe_pc = "start"
    /\ entry \in {"cli", "html"}
    /\ env_key' = IF api_key # "" THEN api_key ELSE env_key
    /\ pipe_pc' = IF use_sample THEN "sample" ELSE "construct"
    /\ UNCHANGED notPipeVars
    /\ UNCHANGED <<entry, use_sample, api_key, selected_vaults, config_key,
                   tracked_vaults, report_data, fetch_idx, requested, last_outcome,
                   charts, vault_charts, chart_files, artifact, message, pipe_status, failure>>

\* web_app._run_generation lines 632-638: config is imported, the job's
\* message is set
WebBegin ==
    /\ pipe_pc = "start"
    /\ entry = "web"
    /\ config_key' = IF config_key = "unloaded" THEN env_key ELSE config_key
    /\ message' = ProgressMessage("fetch")
    /\ pipe_pc' = IF use_sample THEN "sample" ELSE "construct"
    /\ UNCHANGED notPipeVars
    /\ UNCHANGED <<entry, use_sample, api_key, selected_vaults, env_key,
                   tracked_vaults, report_data, fetch_idx, requested, last_outcome,
                   charts, vault_charts, chart_files, artifact, pipe_status, failure>>

\* generate_sample_data() (generate_report.py line 61, generate_html_report.py
\* line 628, web_app.py line 641); data_fetcher imports config
SampleData ==
    /\ pipe_pc = "sample"
    /\ report_data' = generate_sample_data
    /\ config_key' = IF config_key = "unloaded" THEN env_key ELSE config_key
    /\ pipe_pc' = IF entry = "web" THEN "filter" ELSE "charts"
    /\ UNCHANGED notPipeVars
    /\ UNCHANGED <<entry, use_sample, api_key, selected_vaults, env_key,
                   tracked_vaults, fetch_idx, requested, last_outcome, charts,
                   vault_charts, chart_files, artifact, message, pipe_status, failure>>

\* web_app.py lines 643-646: report_data["vault_liquidity"] is indexed; a
\* missing key raises KeyError, which the handler of lines 686-692 turns into
\* the job's error status
WebFilterVaults ==
    /\ pipe_pc = "filter"
    /\ IF report_data["vault_liquidity"] = "absent"
       THEN /\ failure' = "KeyError"
            /\ pipe_status' = "error"
            /\ pipe_pc' = "finished"
            /\ message' = ""
       ELSE /\ failure' = failure
            /\ pipe_status' = pipe_status
            /\ pipe_pc' = "charts"
            /\ message' = ProgressMessage("charts")
    /\ UNCHANGED notPipeVars
    /\ UNCHANGED <<entry, use_sample, api_key, selected_vaults, env_key, config_key,
                   tracked_vaults, report_data, fetch_idx, requested, last_outcome,
                   charts, vault_charts, chart_files, artifact>>

\* DuneDataFetcher(...) is constructed (data_fetcher.py lines 18-28), by
\* generate_report.py line 65, generate_html_report.py line 632 or web_app.py
\* lines 648-651. A missing key raises ValueError: the CLI exits with status
\* 1 (lines 67-71), the web job ends in error (lines 686-692). In the web job
\* the tracked vaults are then overridden (lines 654-656).
Construct ==
    /\ pipe_pc = "construct"
    /\ LET env == IF entry = "web" /\ api_key # "" THEN api_key ELSE env_key
           cfg == IF config_key = "unloaded" THEN env_key ELSE config_key
           arg == IF entry = "web" THEN api_key ELSE ""
           key == ChosenKey(arg, cfg) IN
       /\ env_key' = env
       /\ config_key' = cfg
       /\ IF CredentialMissing(key)
          THEN /\ failure' = "credential"
               /\ pipe_status' = Failed
               /\ pipe_pc' = "finished"
               /\ tracked_vaults' = tracked_vaults
               /\ message' = ""
          ELSE /\ failure' = failure
               /\ pipe_status' = pipe_status
               /\ pipe_pc' = "fetching"
               /\ tracked_vaults' = IF entry = "web" THEN ActiveVaults(selected_vaults)
                                     ELSE tracked_vaults
               /\ message' = message
    /\ UNCHANGED notPipeVars
    /\ UNCHANGED <<entry, use_sample, api_key, selected_vaults, report_data, fetch_idx,
                   requested, last_outcome, charts, vault_charts, chart_files, artifact>>

\* fetch_all_report_data, one of lines 79-85, 89-95, 99-105, 109-115, 120-124:
\* the request for one key is sent and ends in one of the outcomes; an
\* exception is caught and the empty table stored. (An exception no handler
\* catches leaves fetch_all_report_data: the web job restores the tracked
\* vaults, line 660, and ends in error; the CLI ends with a traceback.)
FetchKey ==
    /\ pipe_pc = "fetching"
    /\ fetch_idx <= Len(FetchPlan)
    /\ LET item == FetchPlan[fetch_idx] IN
       \E o \in Outcomes(item.via) :
          /\ requested' = requested \cup {item.key}
          /\ last_outcome' = o
          /\ IF o \in FetchErrors /\ ~Caught(o)
             THEN /\ failure' = "fetch"
                  /\ pipe_status' = Failed
                  /\ pipe_pc' = "finished"
                  /\ tracked_vaults' = ALL_TRACKED_VAULTS
                  /\ message' = ""
                  /\ UNCHANGED <<report_data, fetch_idx>>
             ELSE /\ report_data' = [report_data EXCEPT ![item.key] = StoredTable(o)]
                  /\ fetch_idx' = fetch_idx + 1
                  /\ UNCHANGED <<failure, pipe_status, pipe_pc, tracked_vaults, message>>
    /\ UNCHANGED notPipeVars
    /\ UNCHANGED <<entry, use_sample, api_key, selected_vaults, env_key, config_key,
                   charts, vault_charts, chart_files, artifact>>

\* fetch_all_report_data returns (line 127); the web job restores the tracked
\* vaults (line 660) and sets its message (line 663)
FetchReturn ==
    /\ pipe_pc = "fetching"
    /\ fetch_idx > Len(FetchPlan)
    /\ pipe_pc' = "charts"
    /\ tracked_vaults' = ALL_TRACKED_VAULTS
    /\ message' = IF entry = "web" THEN ProgressMessage("charts") ELSE message
    /\ UNCHANGED notPipeVars
    /\ UNCHANGED <<entry, use_sample, api_key, selected_vaults, env_key, config_key,
                   report_data, fetch_idx, requested, last_outcome, charts,
                   vault_charts, chart_files, artifact, pipe_status, failure>>

\* generate_all_charts: chart_generator.py lines 277-319 beside
\* generate_html_report.py, morpho-report/morpho-report/chart_generator.py
\* lines 294-328 (with the vault charts) for generate_report.py and web_app.py.
\* Every dataset is looked up with .get and a default. The web job then sets
\* its message (line 668).
Charts ==
    /\ pipe_pc = "charts"
    /\ charts' = FixedCharts
    /\ chart_files' = generate_all_charts(report_data)
    /\ vault_charts' = IF entry = "html" THEN {}
                       ELSE VaultChartKeys(report_data, selected_vaults)
    /\ message' = IF entry = "web" THEN ProgressMessage("document") ELSE message
    /\ pipe_pc' = "document"
    /\ UNCHANGED notPipeVars
    /\ UNCHANGED <<entry, use_sample, api_key, selected_vaults, env_key, config_key,
                   tracked_vaults, report_data, fetch_idx, requested, last_outcome,
                   artifact, pipe_status, failure>>

\* generate_report / generate_html writes the artifact (generate_report.py
\* line 87, generate_html_report.py line 649, web_app.py lines 669-684). The
\* write succeeds or the file system refuses it.
Document ==
    /\ pipe_pc = "document"
    /\ \E written \in BOOLEAN :
          IF written
          THEN /\ artifact' = "written"
               /\ pipe_status' = Succeeded
               /\ failure' = failure
          ELSE /\ artifact' = artifact
               /\ pipe_status' = Failed
               /\ failure' = "write"
    /\ pipe_pc' = "finished"
    /\ message' = ""
    /\ UNCHANGED notPipeVars
    /\ UNCHANGED <<entry, use_sample, api_key, selected_vaults, env_key, config_key,
                   tracked_vaults, report_data, fetch_idx, requested, last_outcome,
                   charts, vault_charts, chart_files>>

PipeNext ==
    \/ CliBegin
    \/ WebBegin
    \/ SampleData
    \/ WebFilterVaults
    \/ Construct
    \/ FetchKey
    \/ FetchReturn
    \/ Charts
    \/ Document

-----------------------------------------------------------------------------
(* fetch_all_report_data with execute_sql followed request by request       *)
(* (data_fetcher.py lines 39-127).                                          *)

\* execute_sql's defaults, the values every call of fetch_all_report_data uses
DefaultPollInterval == 2
DefaultMaxWait == 120

\* the other parameter values explored
MaxPollInterval == 3
MaxWaitSmall == 7

ExecParams ==
    {[poll_interval |-> DefaultPollInterval, max_wait |-> DefaultMaxWait]}
    \cup [poll_interval : 1..MaxPollInterval, max_wait : 1..MaxWaitSmall]

\* the values status_resp.json().get("state", "") takes: the three the code
\* names, two more the API uses, and "" for a response without the field
QueryStates ==
    {"QUERY_STATE_COMPLETED", "QUERY_STATE_FAILED", "QUERY_STATE_CANCELLED",
     "QUERY_STATE_EXECUTING", "QUERY_STATE_PENDING", ""}

\* the loop polling once more when waited has reached max_wait
LoopCondition_Inclusive(w, limit) == w <= limit

\* line 55: while waited < max_wait
LoopCondition(w, limit) == w < limit

\* the status branch fetching results for a failed execution too
StatusBranch_FailedFetches(state) ==
    CASE state \in {"QUERY_STATE_COMPLETED", "QUERY_STATE_FAILED"} -> "results"
      [] state = "QUERY_STATE_CANCELLED" -> "raise"
      [] OTHER -> "poll"

\* lines 61-68: what a status response leads to
StatusBranch(state) ==
    CASE state = "QUERY_STATE_COMPLETED" -> "results"
      [] state \in {"QUERY_STATE_FAILED", "QUERY_STATE_CANCELLED"} -> "raise"
      [] OTHER -> "poll"

\* the pipeline variables fetch_all_report_data does not touch
pipeRest == <<entry, use_sample, api_key, selected_vaults, env_key, config_key,
              tracked_vaults, pipe_pc, charts, vault_charts, chart_files, artifact, message,
              pipe_status, failure>>

ExecIdle ==
    /\ exec_pc = "off"
    /\ poll_interval = DefaultPollInterval
    /\ max_wait = DefaultMaxWait
    /\ waited = 0
    /\ exec_requests = <<>>
    /\ last_state = "none"
    /\ exec_outcome = "none"

\* fetch_all_report_data is entered on a constructed fetcher (line 75)
FetchInit ==
    /\ PipeIdle
    /\ exec_pc = "next"
    /\ \E prm \in ExecParams :
          /\ poll_interval = prm.poll_interval
          /\ max_wait = prm.max_wait
    /\ waited = 0
    /\ exec_requests = <<>>
    /\ last_state = "none"
    /\ exec_outcome = "none"

\* lines 80, 90, 100, 110: execute_sql is called for the next key
ExecCall ==
    /\ exec_pc = "next"
    /\ fetch_idx <= Len(FetchPlan)
    /\ FetchPlan[fetch_idx].via = "execute_sql"
    /\ exec_pc' = "submit"
    /\ waited' = 0
    /\ exec_requests' = <<>>
    /\ last_state' = "none"
    /\ exec_outcome' = "none"
    /\ UNCHANGED notFetchVars
    /\ UNCHANGED pipeRest
    /\ UNCHANGED <<report_data, fetch_idx, requested, last_outcome, poll_interval,
                   max_wait>>

\* lines 43-53: the query is submitted
ExecSubmit ==
    /\ exec_pc = "submit"
    /\ exec_requests' = Append(exec_requests, "submit")
    /\ requested' = requested \cup {FetchPlan[fetch_idx].key}
    /\ \E answer \in {"execution_id", "http_error", "no_execution_id"} :
          IF answer = "execution_id"
          THEN /\ exec_pc' = "loop"
               /\ exec_outcome' = exec_outcome
          ELSE /\ exec_pc' = "raised"
               /\ exec_outcome' = answer
    /\ UNCHANGED notFetchVars
    /\ UNCHANGED pipeRest
    /\ UNCHANGED <<report_data, fetch_idx, last_outcome, poll_interval, max_wait,
                   waited, last_state>>

\* lines 55-68: one turn of the loop up to the branch on the state
ExecPoll ==
    /\ exec_pc = "loop"
    /\ LoopCondition(waited, max_wait)
    /\ waited' = waited + poll_interval
    /\ exec_requests' = Append(exec_requests, "status")
    /\ \/ /\ exec_pc' = "raised"
          /\ exec_outcome' = "http_error"
          /\ last_state' = last_state
       \/ \E state \in QueryStates :
             /\ last_state' = state
             /\ exec_pc' = CASE StatusBranch(state) = "results" -> "completed"
                             [] StatusBranch(state) = "raise" -> "raised"
                             [] OTHER -> "loop"
             /\ exec_outcome' = IF StatusBranch(state) = "raise" THEN "query_failed"
                                ELSE exec_outcome
    /\ UNCHANGED notFetchVars
    /\ UNCHANGED pipeRest
    /\ UNCHANGED <<report_data, fetch_idx, requested, last_outcome, poll_interval,
                   max_wait>>

\* lines 62-65: the results are fetched
ExecResult ==
    /\ exec_pc = "completed"
    /\ exec_requests' = Append(exec_requests, "results")
    /\ \E answer \in {"rows", "empty", "http_error"} :
          /\ exec_outcome' = answer
          /\ exec_pc' = IF answer = "http_error" THEN "raised" ELSE "returned"
    /\ UNCHANGED notFetchVars
    /\ UNCHANGED pipeRest
    /\ UNCHANGED <<report_data, fetch_idx, requested, last_outcome, poll_interval,
                   max_wait, waited, last_state>>

\* line 70: the loop ends without a result
ExecTimeout ==
    /\ exec_pc = "loop"
    /\ ~LoopCondition(waited, max_wait)
    /\ exec_pc' = "raised"
    /\ exec_outcome' = "timeout"
    /\ UNCHANGED notFetchVars
    /\ UNCHANGED pipeRest
    /\ UNCHANGED <<report_data, fetch_idx, requested, last_outcome, poll_interval,
                   max_wait, waited, exec_requests, last_state>>

\* lines 80-85 (and 90-95, 100-105, 110-115): the value returned is stored,
\* or the handler stores the empty table; an exception the handler does not
\* catch leaves fetch_all_report_data. The locals of the call are gone.
ExecStore ==
    /\ exec_pc \in {"returned", "raised"}
    /\ last_outcome' = exec_outcome
    /\ IF exec_pc = "raised" /\ ~Caught(exec_outcome)
       THEN /\ exec_pc' = "failed"
            /\ UNCHANGED <<report_data, fetch_idx>>
       ELSE /\ exec_pc' = "next"
            /\ report_data' = [report_data EXCEPT
                                  ![FetchPlan[fetch_idx].key] = StoredTable(exec_outcome)]
            /\ fetch_idx' = fetch_idx + 1
    /\ UNCHANGED notFetchVars
    /\ UNCHANGED pipeRest
    /\ waited' = 0
    /\ exec_requests' = <<>>
    /\ last_state' = "none"
    /\ exec_outcome' = "none"
    /\ UNCHANGED <<requested, poll_interval, max_wait>>

\* lines 118-124: one dashboard query is read with get_latest_result
LatestResult ==
    /\ exec_pc = "next"
    /\ fetch_idx <= Len(FetchPlan)
    /\ FetchPlan[fetch_idx].via = "get_latest_result"
    /\ requested' = requested \cup {FetchPlan[fetch_idx].key}
    /\ \E o \in Outcomes("get_latest_result") :
          /\ last_outcome' = o
          /\ IF o \in FetchErrors /\ ~Caught(o)
             THEN /\ exec_pc' = "failed"
                  /\ UNCHANGED <<report_data, fetch_idx>>
             ELSE /\ exec_pc' = exec_pc
                  /\ report_data' = [report_data EXCEPT
                                        ![FetchPlan[fetch_idx].key] = StoredTable(o)]
                  /\ fetch_idx' = fetch_idx + 1
    /\ UNCHANGED notFetchVars
    /\ UNCHANGED pipeRest
    /\ UNCHANGED <<poll_interval, max_wait, waited, exec_requests, last_state,
                   exec_outcome>>

\* line 127: return report_data
FetchDone ==
    /\ exec_pc = "next"
    /\ fetch_idx > Len(FetchPlan)
    /\ exec_pc' = "done"
    /\ UNCHANGED notFetchVars
    /\ UNCHANGED pipeRest
    /\ UNCHANGED <<report_data, fetch_idx, requested, last_outcome, poll_interval,
                   max_wait, waited, exec_requests, last_state, exec_outcome>>

FetchNext ==
    \/ ExecCall
    \/ ExecSubmit
    \/ ExecPoll
    \/ ExecResult
    \/ ExecTimeout
    \/ ExecStore
    \/ LatestResult
    \/ FetchDone

-----------------------------------------------------------------------------
(* The web app's job table: api_generate, api_status and the worker threads *)
(* running _run_generation (web_app.py lines 587-692).                      *)

\* the number of submissions followed
MaxJobs == 2

Workers == 1..MaxJobs

\* The values str(uuid.uuid4())[:8] takes (line 595): eight hexadecimal
\* digits drawn at random, here a space of two, so that two submissions can
\* draw the same value as they can among the 16^8 of the code.
JobIds == {"id_a", "id_b"}

\* the field is not in the entry
Missing == "-"

NoEntry == [status |-> "absent", message |-> Missing, filename |-> Missing]

\* line 596
RunningEntry == [status |-> "running", message |-> "Initializing...", filename |-> Missing]

\* lines 679-684 (size and path go with filename)
DoneEntry == [status |-> "done", message |-> Missing, filename |-> "report.pdf"]

\* lines 689-692
ErrorEntry == [status |-> "error", message |-> Missing, filename |-> Missing]

\* lines 612-615: the entry itself, or the 404 answer
NotFound == [status |-> "error", message |-> Missing, filename |-> "404"]

NotPolled == [status |-> "none", message |-> Missing, filename |-> Missing]

\* by: "api_generate" or "worker" (and which one); owner: the submission the
\* entry written to had been created for, 0 when the id had no entry
NoWrite == [by |-> "none", worker |-> 0, job |-> "none", kind |-> "none", owner |-> 0]

\* the submission a job id's present entry was created for (0: no entry)
EntryOwner(id) ==
    IF jobs[id] = NoEntry THEN 0
    ELSE CHOOSE w \in Workers :
            /\ worker_job[w] = id
            /\ \A v \in Workers : worker_job[v] = id => v <= w

\* the handler of lines 686-692 letting the exceptions of the document stage through
ExceptionCaught_NotInBuild(stage) == stage # "building"

\* lines 630 and 686: the try block spans every stage, except Exception
\* catches what they raise
ExceptionCaught(stage) == TRUE

JobsIdle ==
    /\ jobs = [id \in JobIds |-> NoEntry]
    /\ worker_pc = [w \in Workers |-> "off"]
    /\ worker_job = [w \in Workers |-> "none"]
    /\ observed = NotPolled
    /\ last_write = NoWrite
    /\ worker_result = [w \in Workers |-> "none"]

\* line 27: jobs = {}
JobsInit ==
    /\ jobs = [id \in JobIds |-> NoEntry]
    /\ worker_pc = [w \in Workers |-> "unsubmitted"]
    /\ worker_job = [w \in Workers |-> "none"]
    /\ observed = NotPolled
    /\ last_write = NoWrite
    /\ worker_result = [w \in Workers |-> "none"]

\* api_generate, lines 590-606: the id is drawn, the entry stored, the
\* thread started
Submit ==
    /\ \E w \in Workers :
          /\ worker_pc[w] = "unsubmitted"
          /\ \A v \in Workers : v < w => worker_pc[v] # "unsubmitted"
          /\ \E id \in JobIds :
                /\ jobs' = [jobs EXCEPT ![id] = RunningEntry]
                /\ worker_job' = [worker_job EXCEPT ![w] = id]
                /\ last_write' = [by |-> "api_generate", worker |-> 0, job |-> id,
                                  kind |-> "replace",
                                  owner |-> EntryOwner(id)]
          /\ worker_pc' = [worker_pc EXCEPT ![w] = "start"]
    /\ UNCHANGED <<observed, worker_result>>
    /\ UNCHANGED notJobsVars

\* api_status, lines 612-615: what the request for job_id returns
api_status(job_id) ==
    IF jobs[job_id] = NoEntry THEN NotFound ELSE jobs[job_id]

\* a status request is served
StatusPoll ==
    /\ \E id \in JobIds : observed' = api_status(id)
    /\ UNCHANGED <<jobs, worker_pc, worker_job, last_write, worker_result>>
    /\ UNCHANGED notJobsVars

\* what a worker does to the table when a stage raises: the handler stores
\* the error entry (lines 686-692), or the exception ends the thread
Raise(w, stage) ==
    IF ExceptionCaught(stage)
    THEN /\ jobs' = [jobs EXCEPT ![worker_job[w]] = ErrorEntry]
         /\ last_write' = [by |-> "worker", worker |-> w, job |-> worker_job[w],
                           kind |-> "replace",
                           owner |-> EntryOwner(worker_job[w])]
         /\ worker_pc' = [worker_pc EXCEPT ![w] = "finished"]
         /\ worker_result' = [worker_result EXCEPT ![w] = "error"]
    ELSE /\ worker_pc' = [worker_pc EXCEPT ![w] = "dead"]
         /\ UNCHANGED <<jobs, last_write, worker_result>>

\* jobs[job_id]["message"] = text (lines 638, 663, 668)
SetMessage(w, text, next_pc) ==
    /\ jobs' = [jobs EXCEPT ![worker_job[w]].message = text]
    /\ last_write' = [by |-> "worker", worker |-> w, job |-> worker_job[w],
                      kind |-> "update",
                      owner |-> EntryOwner(worker_job[w])]
    /\ worker_pc' = [worker_pc EXCEPT ![w] = next_pc]
    /\ UNCHANGED worker_result

\* lines 630-638: the imports and the vault filter, then the first message
Begin(w) ==
    /\ worker_pc[w] = "start"
    /\ \/ Raise(w, "start")
       \/ SetMessage(w, "Fetching data...", "fetching")
    /\ UNCHANGED <<worker_job, observed>>
    /\ UNCHANGED notJobsVars

\* lines 639-663: the fetch stage returns or raises
Fetch(w) ==
    /\ worker_pc[w] = "fetching"
    /\ \/ Raise(w, "fetching")
       \/ SetMessage(w, "Generating charts...", "charting")
    /\ UNCHANGED <<worker_job, observed>>
    /\ UNCHANGED notJobsVars

\* lines 664-668: the chart stage returns or raises
Chart(w) ==
    /\ worker_pc[w] = "charting"
    /\ \/ Raise(w, "charting")
       \/ SetMessage(w, "Building PDF...", "building")
    /\ UNCHANGED <<worker_job, observed>>
    /\ UNCHANGED notJobsVars

\* lines 669-684: the document stage returns and the done entry is stored,
\* or it raises
Build(w) ==
    /\ worker_pc[w] = "building"
    /\ \/ Raise(w, "building")
       \/ /\ jobs' = [jobs EXCEPT ![worker_job[w]] = DoneEntry]
          /\ last_write' = [by |-> "worker", worker |-> w, job |-> worker_job[w],
                           kind |-> "replace",
                            owner |-> EntryOwner(worker_job[w])]
          /\ worker_pc' = [worker_pc EXCEPT ![w] = "finished"]
          /\ worker_result' = [worker_result EXCEPT ![w] = "done"]
    /\ UNCHANGED <<worker_job, observed>>
    /\ UNCHANGED notJobsVars

WorkerBegin == \E w \in Workers : Begin(w)

WorkerFetch == \E w \in Workers : Fetch(w)

WorkerChart == \E w \in Workers : Chart(w)

WorkerBuild == \E w \in Workers : Build(w)

JobsNext ==
    \/ Submit
    \/ StatusPoll
    \/ WorkerBegin
    \/ WorkerFetch
    \/ WorkerChart
    \/ WorkerBuild

-----------------------------------------------------------------------------
(* The bad-debt wording of the document stage: pdf_generator.generate_report *)
(* (lines 209-226 and 300-312) and generate_html_report.generate_html       *)
(* (lines 102-144).                                                         *)

\* the small amounts explored, beside the thresholds of _format_usd
MaxBadDebt == 30

BadDebtValues ==
    0..MaxBadDebt \cup {999, 1000, 999999, 1000000, 999999999, 1000000000}

EmptySummary == [empty |-> TRUE, total_bad_debt_usd |-> 0]

SummaryRow(v) == [empty |-> FALSE, total_bad_debt_usd |-> v]

NoAmount == [scaled |-> 0, digits |-> 0, unit |-> "-"]

NoText == [branch |-> "none", amount |-> NoAmount]

\* _format_usd (pdf_generator.py lines 33-44) of a whole-dollar value: the
\* unit chosen and the number printed, as a count of its last decimal place
\* (two places for billions and plain dollars, one for millions and
\* thousands), rounded to nearest as the format specifier does
format_usd(value) ==
    CASE value >= 1000000000 ->
            [scaled |-> (value + 5000000) \div 10000000, digits |-> 2, unit |-> "B"]
      [] value >= 1000000 ->
            [scaled |-> (value + 50000) \div 100000, digits |-> 1, unit |-> "M"]
      [] value >= 1000 ->
            [scaled |-> (value + 50) \div 100, digits |-> 1, unit |-> "K"]
      [] OTHER -> [scaled |-> value * 100, digits |-> 2, unit |-> ""]

\* lines 209-218 (html: 102-111): s.get("total_bad_debt_usd", 0) of the
\* first row, 0 for an empty summary
bad_debt_of(summary) ==
    IF ~summary.empty THEN summary.total_bad_debt_usd ELSE 0

\* pdf lines 220-226, html lines 114-118: the TLDR sentence's clause
bad_debt_text(bad_debt) ==
    IF bad_debt = 0
    THEN [branch |-> "zero", amount |-> NoAmount]
    ELSE [branch |-> "nonzero", amount |-> format_usd(bad_debt)]

\* the paragraph treating an amount below a thousand dollars as none
bad_debt_section_text_Threshold(bad_debt) ==
    IF bad_debt < 1000
    THEN [branch |-> "zero", amount |-> NoAmount]
    ELSE [branch |-> "nonzero", amount |-> format_usd(bad_debt)]

\* pdf lines 300-312, html lines 134-144: the Bad Debt Overview paragraph
bad_debt_section_text(bad_debt) ==
    IF bad_debt = 0
    THEN [branch |-> "zero", amount |-> NoAmount]
    ELSE [branch |-> "nonzero", amount |-> format_usd(bad_debt)]

\* pdf lines 323-326, html lines 547-551: the first Key Takeaway ends
\* "with zero bad debt", a fixed text in which bad_debt is not used
takeaways(bad_debt) == [branch |-> "zero", amount |-> NoAmount]

DocIdle ==
    /\ doc_target = "off"
    /\ doc_summary = EmptySummary
    /\ doc_pc = "off"
    /\ doc_text = [tldr |-> NoText, overview |-> NoText, takeaways |-> NoText]

\* the document stage is called with some weekly_summary
DocInit ==
    /\ doc_target \in {"pdf", "html"}
    /\ doc_summary \in {EmptySummary} \cup {SummaryRow(v) : v \in BadDebtValues}
    /\ doc_pc = "called"
    /\ doc_text = [tldr |-> NoText, overview |-> NoText, takeaways |-> NoText]

\* generate_report renders the two passages
RenderPdf ==
    /\ doc_pc = "called"
    /\ doc_target = "pdf"
    /\ LET bad_debt == bad_debt_of(doc_summary) IN
       doc_text' = [tldr |-> bad_debt_text(bad_debt),
                    overview |-> bad_debt_section_text(bad_debt),
                    takeaways |-> takeaways(bad_debt)]
    /\ doc_pc' = "rendered"
    /\ UNCHANGED <<doc_target, doc_summary>>
    /\ UNCHANGED notDocVars

\* generate_html renders the two passages
RenderHtml ==
    /\ doc_pc = "called"
    /\ doc_target = "html"
    /\ LET bad_debt == bad_debt_of(doc_summary) IN
       doc_text' = [tldr |-> bad_debt_text(bad_debt),
                    overview |-> bad_debt_section_text(bad_debt),
                    takeaways |-> takeaways(bad_debt)]
    /\ doc_pc' = "rendered"
    /\ UNCHANGED <<doc_target, doc_summary>>
    /\ UNCHANGED notDocVars

DocNext ==
    \/ RenderPdf
    \/ RenderHtml

-----------------------------------------------------------------------------
(* What concurrent web jobs share: the attribute config.ALL_TRACKED_VAULTS  *)
(* (web_app._run_generation lines 632-660) and the files of REPORTS_DIR     *)
(* (lines 665-684). The jobs are live-mode jobs with a credential; a step   *)
(* of one thread may fall between any two statements of another.            *)

MaxMinute == 1

\* the fixed names generate_all_charts writes (chart_generator.py lines
\* 306-316), and line 670: the minute is all that tells two reports apart
ChartPath == [kind |-> "chart", minute |-> 0]

ReportPath(minute) == [kind |-> "report", minute |-> minute]

Paths == {ChartPath} \cup {ReportPath(m) : m \in 0..MaxMinute}

NoPath == [kind |-> "none", minute |-> 0]

NotReported == [path |-> NoPath, bytes_of |-> 0]

Unread == {"unread"}

SharedIdle ==
    /\ config_vaults = ALL_TRACKED_VAULTS
    /\ job_pc = [w \in Workers |-> "off"]
    /\ job_selected = [w \in Workers |-> {}]
    /\ job_active = [w \in Workers |-> {}]
    /\ job_original = [w \in Workers |-> {}]
    /\ job_seen = [w \in Workers |-> Unread]
    /\ job_raised = [w \in Workers |-> FALSE]
    /\ wall_minute = 0
    /\ writers = [p \in Paths |-> {}]
    /\ content = [p \in Paths |-> 0]
    /\ job_path = [w \in Workers |-> NoPath]
    /\ job_reported = [w \in Workers |-> NotReported]

\* api_generate has started a thread for each job (lines 599-604)
SharedInit ==
    /\ config_vaults = ALL_TRACKED_VAULTS
    /\ job_pc = [w \in Workers |-> "import"]
    /\ job_selected \in [Workers -> SUBSET ALL_TRACKED_VAULTS]
    /\ job_active = [w \in Workers |-> {}]
    /\ job_original = [w \in Workers |-> {}]
    /\ job_seen = [w \in Workers |-> Unread]
    /\ job_raised = [w \in Workers |-> FALSE]
    /\ wall_minute = 0
    /\ writers = [p \in Paths |-> {}]
    /\ content = [p \in Paths |-> 0]
    /\ job_path = [w \in Workers |-> NoPath]
    /\ job_reported = [w \in Workers |-> NotReported]

\* lines 632-635: from config import ALL_TRACKED_VAULTS binds the attribute's
\* present value; active_vaults is filtered from it
JobImport(w) ==
    /\ job_pc[w] = "import"
    /\ job_active' = [job_active EXCEPT ![w] = {v \in config_vaults : v \in job_selected[w]}]
    /\ job_pc' = [job_pc EXCEPT ![w] = "save"]
    /\ UNCHANGED <<config_vaults, job_selected, job_original, job_seen, job_raised,
                   wall_minute, writers, content, job_path, job_reported>>
    /\ UNCHANGED notSharedVars

\* line 655
JobSave(w) ==
    /\ job_pc[w] = "save"
    /\ job_original' = [job_original EXCEPT ![w] = config_vaults]
    /\ job_pc' = [job_pc EXCEPT ![w] = "override"]
    /\ UNCHANGED <<config_vaults, job_selected, job_active, job_seen, job_raised,
                   wall_minute, writers, content, job_path, job_reported>>
    /\ UNCHANGED notSharedVars

\* line 656
JobOverride(w) ==
    /\ job_pc[w] = "override"
    /\ config_vaults' = job_active[w]
    /\ job_pc' = [job_pc EXCEPT ![w] = "fetch"]
    /\ UNCHANGED <<job_selected, job_active, job_original, job_seen, job_raised,
                   wall_minute, writers, content, job_path, job_reported>>
    /\ UNCHANGED notSharedVars

\* line 658: fetch_all_report_data runs, with the attribute as it is at
\* that time, and returns or raises
JobFetch(w) ==
    /\ job_pc[w] = "fetch"
    /\ job_seen' = [job_seen EXCEPT ![w] = config_vaults]
    /\ \E raised \in BOOLEAN : job_raised' = [job_raised EXCEPT ![w] = raised]
    /\ job_pc' = [job_pc EXCEPT ![w] = "restore"]
    /\ UNCHANGED <<config_vaults, job_selected, job_active, job_original,
                   wall_minute, writers, content, job_path, job_reported>>
    /\ UNCHANGED notSharedVars

\* lines 659-660: the finally clause; an exception of the fetch then reaches
\* the handler of lines 686-692
JobRestore(w) ==
    /\ job_pc[w] = "restore"
    /\ config_vaults' = job_original[w]
    /\ job_pc' = [job_pc EXCEPT ![w] = IF job_raised[w] THEN "error" ELSE "charts"]
    /\ UNCHANGED <<job_selected, job_active, job_original, job_seen, job_raised,
                   wall_minute, writers, content, job_path, job_reported>>
    /\ UNCHANGED notSharedVars

\* line 665: generate_all_charts(report_data, output_dir=REPORTS_DIR)
JobCharts(w) ==
    /\ job_pc[w] = "charts"
    /\ writers' = [writers EXCEPT ![ChartPath] = @ \cup {w}]
    /\ content' = [content EXCEPT ![ChartPath] = w]
    /\ job_pc' = [job_pc EXCEPT ![w] = "name"]
    /\ UNCHANGED <<config_vaults, job_selected, job_active, job_original, job_seen,
                   job_raised, wall_minute, job_path, job_reported>>
    /\ UNCHANGED notSharedVars

\* lines 669-671: the file name is built from the present minute
JobName(w) ==
    /\ job_pc[w] = "name"
    /\ job_path' = [job_path EXCEPT ![w] = ReportPath(wall_minute)]
    /\ job_pc' = [job_pc EXCEPT ![w] = "write"]
    /\ UNCHANGED <<config_vaults, job_selected, job_active, job_original, job_seen,
                   job_raised, wall_minute, writers, content, job_reported>>
    /\ UNCHANGED notSharedVars

\* line 674: generate_report writes the PDF
JobWrite(w) ==
    /\ job_pc[w] = "write"
    /\ writers' = [writers EXCEPT ![job_path[w]] = @ \cup {w}]
    /\ content' = [content EXCEPT ![job_path[w]] = w]
    /\ job_pc' = [job_pc EXCEPT ![w] = "size"]
    /\ UNCHANGED <<config_vaults, job_selected, job_active, job_original, job_seen,
                   job_raised, wall_minute, job_path, job_reported>>
    /\ UNCHANGED notSharedVars

\* lines 676-684: the size of the file at output_path is read and the done
\* record stored
JobDone(w) ==
    /\ job_pc[w] = "size"
    /\ job_reported' = [job_reported EXCEPT ![w] =
                           [path |-> job_path[w], bytes_of |-> content[job_path[w]]]]
    /\ job_pc' = [job_pc EXCEPT ![w] = "done"]
    /\ UNCHANGED <<config_vaults, job_selected, job_active, job_original, job_seen,
                   job_raised, wall_minute, writers, content, job_path>>
    /\ UNCHANGED notSharedVars

\* a minute of wall-clock time passes
Tick ==
    /\ wall_minute < MaxMinute
    /\ wall_minute' = wall_minute + 1
    /\ UNCHANGED <<config_vaults, job_pc, job_selected, job_active, job_original,
                   job_seen, job_raised, writers, content, job_path, job_reported>>
    /\ UNCHANGED notSharedVars

Import == \E w \in Workers : JobImport(w)

Save == \E w \in Workers : JobSave(w)

Override == \E w \in Workers : JobOverride(w)

FetchData == \E w \in Workers : JobFetch(w)

Restore == \E w \in Workers : JobRestore(w)

ChartFiles == \E w \in Workers : JobCharts(w)

NameReport == \E w \in Workers : JobName(w)

WriteReport == \E w \in Workers : JobWrite(w)

ReportDone == \E w \in Workers : JobDone(w)

SharedNext ==
    \/ Import
    \/ Save
    \/ Override
    \/ FetchData
    \/ Restore
    \/ ChartFiles
    \/ NameReport
    \/ WriteReport
    \/ ReportDone
    \/ Tick

\* The cron matcher is not being exercised (the other specifications).
CronIdle ==
    /\ cron_expr = <<>>
    /\ cron_str = <<>>
    /\ cron_now = TimeAt(0)
    /\ cron_result = "none"

SpecSchedInit ==
    SchedInit /\ CronIdle /\ PipeIdle /\ ExecIdle /\ JobsIdle /\ DocIdle /\ SharedIdle

SpecSched == SpecSchedInit /\ [][SchedNext]_vars

CronNext == CallParse

SpecCronInit ==
    CronInit /\ SchedIdle /\ PipeIdle /\ ExecIdle /\ JobsIdle /\ DocIdle /\ SharedIdle

SpecPipeInit ==
    PipeInit /\ CronIdle /\ SchedIdle /\ ExecIdle /\ JobsIdle /\ DocIdle /\ SharedIdle

SpecFetchInit ==
    FetchInit /\ CronIdle /\ SchedIdle /\ JobsIdle /\ DocIdle /\ SharedIdle

SpecFetch == SpecFetchInit /\ [][FetchNext]_vars

SpecJobsInit ==
    JobsInit /\ CronIdle /\ SchedIdle /\ PipeIdle /\ ExecIdle /\ DocIdle /\ SharedIdle

SpecJobs == SpecJobsInit /\ [][JobsNext]_vars

SpecDocInit ==
    DocInit /\ CronIdle /\ SchedIdle /\ PipeIdle /\ ExecIdle /\ JobsIdle /\ SharedIdle

SpecSharedInit ==
    SharedInit /\ CronIdle /\ SchedIdle /\ PipeIdle /\ ExecIdle /\ JobsIdle /\ DocIdle

SpecShared == SpecSharedInit /\ [][SharedNext]_vars

SpecDoc == SpecDocInit /\ [][DocNext]_vars

\* Each worker is a started thread, and a thread that can take its next step
\* is scheduled to take it.
SpecJobsFair ==
    /\ SpecJobsInit
    /\ [][JobsNext]_vars
    /\ \A w \in Workers :
          /\ WF_vars(Begin(w))
          /\ WF_vars(Fetch(w))
          /\ WF_vars(Chart(w))
          /\ WF_vars(Build(w))

SpecPipe == SpecPipeInit /\ [][PipeNext]_vars

SpecCron == SpecCronInit /\ [][CronNext]_vars

-----------------------------------------------------------------------------
(* Claims about the cron matcher (SpecCron)                                 *)

\* The matcher contract of the specification, read on the expression itself
WellFormedField(f) == f.kind # "bad" /\ (f.kind = "step" => f.n >= 1)

ContractFieldMatches(f, value) ==
    CASE f.kind = "any"  -> TRUE
      [] f.kind = "step" -> value % f.n = 0
      [] f.kind = "list" -> \E i \in 1..Len(f.vals) : f.vals[i] = value
      [] f.kind = "int"  -> value = f.v
      [] OTHER -> FALSE

\* cron day-of-week (0 = Sunday) of each native weekday, Monday first
CronDayOfWeek == <<1, 2, 3, 4, 5, 6, 0>>

ContractValues(now) ==
    <<now.minute, now.hour, now.day, now.month, CronDayOfWeek[now.weekday + 1]>>

ContractMatches(expr, now) ==
    \A i \in 1..5 : ContractFieldMatches(expr[i], ContractValues(now)[i])

\* C3: a cron string that does not split into exactly five fields makes
\* parse_simple_cron raise ValueError, at every time, and never return
\* True or False.
C3_WrongFieldCountRaises ==
    (cron_result # "none" /\ Len(cron_expr) # 5) => cron_result = "ValueError"

C3_Witness ==
    /\ cron_result = "ValueError"
    /\ Len(cron_expr) = 6
    /\ \A i \in 1..Len(cron_expr) : WellFormedField(cron_expr[i])

\* C4: for a well-formed five-field expression the call returns True exactly
\* when all five fields match ("*" always, "*/N" on divisibility, a list on
\* membership, an integer on equality) and False otherwise; "*/15 * * * *"
\* is True exactly when minute % 15 = 0.
C4_MatchesContract ==
    (/\ cron_result # "none"
     /\ Len(cron_expr) = 5
     /\ \A i \in 1..5 : WellFormedField(cron_expr[i]))
    => /\ cron_result \in {"True", "False"}
       /\ (cron_result = "True") <=> ContractMatches(cron_expr, cron_now)
       /\ cron_expr = EveryFifteen =>
             ((cron_result = "True") <=> (cron_now.minute % 15 = 0))

C4_Witness ==
    /\ cron_result = "True"
    /\ cron_expr = EveryFifteen
    /\ cron_now.minute = 45

\* C5: the day-of-week compared is the cron value of the native weekday
\* (Monday -> 1, ..., Saturday -> 6, Sunday -> 0), and "0 9 * * 1" is True
\* only at minute 0 of hour 9 on a Monday.
C5_WeekdayRemap ==
    cron_result # "none" =>
       /\ NowFields(cron_now)[5] = CronDayOfWeek[cron_now.weekday + 1]
       /\ cron_expr = MondayNine =>
             ((cron_result = "True") <=>
                 (cron_now.minute = 0 /\ cron_now.hour = 9 /\ cron_now.weekday = 0))

C5_Witness ==
    /\ cron_result = "True"
    /\ cron_expr = MondayNine
    /\ cron_now.weekday = 0

\* C29: a five-field expression with a field that is none of "*", "*/N"
\* with N >= 1, a comma list of integers and an integer makes
\* parse_simple_cron raise at every time, whatever the earlier fields are,
\* and never return True or False.
C29_InvalidFieldAlwaysRaises ==
    (/\ cron_result # "none"
     /\ Len(cron_expr) = 5
     /\ \E i \in 1..5 : ~WellFormedField(cron_expr[i]))
        => cron_result \notin {"True", "False"}

-----------------------------------------------------------------------------
(* Claims about the scheduler loop (SpecSched)                              *)

\* C1: run_report is started at most once within a wall-clock minute: when a
\* run is started, the latest earlier start lies in another minute.
C1_AtMostOncePerMinute ==
    [][(sched_pc = "check" /\ sched_pc' = "run")
          => start_minute # AbsMinute(clock')]_vars

\* C2: no matching minute in which the loop polls is left without a trigger,
\* on the first day or a later one: a poll whose clock readings all fall in
\* a minute matching the expression goes back to sleep without starting
\* run_report only if run_report was already started within that minute.
C2_NoMatchingMinuteMissed ==
    [][(/\ sched_pc = "check"
        /\ sched_pc' = "sleep"
        /\ AbsMinute(clock') = AbsMinute(now_tick)
        /\ Len(sched_expr) = 5
        /\ \A i \in 1..5 : WellFormedField(sched_expr[i])
        /\ ContractMatches(sched_expr, TimeAt(now_tick)))
          => start_minute' = AbsMinute(now_tick)]_vars

\* C21: whatever cron expression was passed and however the clock readings
\* and the pipeline runs turn out, the loop is left through the operator's
\* interrupt only: it is polling, checking, running, sleeping, or was
\* stopped by the interrupt.
C21_OnlyInterruptEnds ==
    sched_pc \in {"poll", "check", "run", "running", "sleep", "stopped"}

\* the minute of the poll at hand matches the expression, and both clock
\* readings of the poll fall in it
PollInMatchingMinute ==
    /\ AbsMinute(clock') = AbsMinute(now_tick)
    /\ Len(sched_expr) = 5
    /\ \A i \in 1..5 : WellFormedField(sched_expr[i])
    /\ ContractMatches(sched_expr, TimeAt(now_tick))

\* C22: a run whose subprocess exits non-zero is reported by the failure
\* line and the non-zero return code and leaves the loop running; after it
\* the loop triggers again at the next matching minute (a poll in a matching
\* minute goes back to sleep without a trigger only if the run was already
\* started within that minute).
C22_FailedRunDoesNotStopLoop ==
    [][/\ (sched_pc = "running" /\ sched_pc' = "sleep" /\ returncode' # 0)
            => (log_line' = "failed" /\ running' = 0)
       /\ (returncode # 0 /\ returncode # -1) => sched_pc' # "crashed"
       /\ (/\ returncode # 0 /\ returncode # -1
           /\ sched_pc = "check"
           /\ sched_pc' = "sleep"
           /\ PollInMatchingMinute)
            => start_minute' = AbsMinute(now_tick)]_vars

\* C23: the pipeline is invoked synchronously. At most one run is in
\* progress; while one is, the loop is inside run_report, and the only steps
\* are the run's return and the interrupt (no poll, no second start); a
\* trigger happens only from a poll whose minute bucket differs from the
\* last-triggered bucket and for which the matcher returned True.
C23_SynchronousSingleRun ==
    [][/\ running' \in {0, 1}
       /\ running' = 1 => sched_pc' = "running"
       /\ running = 1 => sched_pc' \in {"sleep", "stopped"}
       /\ running' > running => (sched_pc = "run" /\ running = 0)
       /\ (sched_pc = "check" /\ sched_pc' = "run")
            => /\ current_minute # last_run_minute
               /\ parse_simple_cron(sched_cron, TimeAt(clock')) = "True"
               /\ last_run_minute' = current_minute]_vars

C23_Witness ==
    /\ sched_pc = "running"
    /\ running = 1
    /\ sched_expr = DailyNine
    /\ last_run_minute = 540

-----------------------------------------------------------------------------
(* Claims about the report pipeline (SpecPipe).                             *)

ExpectedKeys == {FetchPlan[i].key : i \in 1..Len(FetchPlan)}

FetchStageDone == pipe_pc \in {"filter", "charts", "document"}

\* C6: once the fetch stage has completed, in live mode whatever mix of
\* datasets succeeded and failed and in sample mode alike, each of the four
\* custom-query keys and each key of QUERY_IDS is in the mapping, mapped to a
\* table that may be empty, and none is absent.
C6_ExpectedKeysPresent ==
    FetchStageDone => \A k \in ExpectedKeys : report_data[k] # "absent"

C6_Witness ==
    /\ pipe_pc = "charts"
    /\ ~use_sample
    /\ last_outcome \in FetchErrors
    /\ report_data["weekly_summary"] = "rows"
    /\ report_data["bad_debt_events_24h"] = "empty"

\* C7: no step of a pipeline run indexes a key that report_data lacks; in
\* particular the web pipeline's read of "vault_liquidity" finds an entry.
C7_NoMissingKeyIndexed == failure # "KeyError"

\* C8: in fetch_all_report_data an exception raised while one key is fetched
\* is caught and that key gets the empty table, the keys after it are still
\* requested, and the stage does not raise.
C8_FetchErrorsAbsorbed ==
    /\ failure # "fetch"
    /\ last_outcome \in FetchErrors =>
          /\ fetch_idx > 1
          /\ report_data[FetchPlan[fetch_idx - 1].key] = "empty"
    /\ (pipe_pc = "charts" /\ ~use_sample) => requested = ExpectedKeys

C8_Witness ==
    /\ pipe_pc = "charts"
    /\ ~use_sample
    /\ report_data["weekly_summary"] = "empty"
    /\ report_data["liquidation_stats_24h"] = "rows"
    /\ last_outcome = "http_error"
    /\ requested = ExpectedKeys

NoCredential == ~use_sample /\ api_key = "" /\ env_key = ""

\* C9: a live run with no credential, neither passed nor in DUNE_API_KEY,
\* fails in the construction of DuneDataFetcher: no request has been sent, no
\* chart and no document produced, and the run ends with exit status 1 in
\* the CLI and with the error status in a web job.
C9_MissingCredentialFailsFirst ==
    NoCredential =>
        /\ requested = {}
        /\ charts = {}
        /\ vault_charts = {}
        /\ artifact = "none"
        /\ pipe_pc \notin {"fetching", "charts", "document"}
        /\ pipe_pc = "finished" =>
              /\ failure = "credential"
              /\ pipe_status = IF entry = "web" THEN "error" ELSE "exit1"

C9_Witness ==
    /\ NoCredential
    /\ entry = "web"
    /\ pipe_pc = "finished"
    /\ pipe_status = "error"

\* C10: a run ends in failure only for a missing credential in live mode or
\* for a failed write of the artifact; every other run ends done.
C10_OnlyTwoFailureCauses ==
    /\ pipe_status \in {"error", "exit1"} => failure \in {"credential", "write"}
    /\ (pipe_pc = "finished" /\ failure = "") => pipe_status = Succeeded

-----------------------------------------------------------------------------
(* Claims about execute_sql inside fetch_all_report_data (SpecFetch).       *)

StatusPolls == Cardinality({i \in 1..Len(exec_requests) : exec_requests[i] = "status"})

CeilDiv(a, b) == (a + b - 1) \div b

\* C11: execute_sql sends at most ceil(max_wait / poll_interval) status
\* requests whatever the responses are; when none of them is COMPLETED,
\* FAILED or CANCELLED the loop cannot go on past that number and the call
\* ends with the timeout; the timeout leaves that key with the empty table
\* and fetch_all_report_data goes on to request every remaining key.
C11_PollingBounded ==
    /\ StatusPolls <= CeilDiv(max_wait, poll_interval)
    /\ (exec_pc = "loop" /\ StatusPolls = CeilDiv(max_wait, poll_interval))
          => waited >= max_wait
    /\ exec_outcome = "timeout" =>
          /\ StatusPolls = CeilDiv(max_wait, poll_interval)
          /\ \A i \in 1..Len(exec_requests) : exec_requests[i] # "results"
    /\ last_outcome = "timeout" =>
          /\ exec_pc # "failed"
          /\ fetch_idx > 1
          /\ report_data[FetchPlan[fetch_idx - 1].key] = "empty"
    /\ exec_pc = "done" => requested = ExpectedKeys

C11_Witness ==
    /\ max_wait = DefaultMaxWait
    /\ poll_interval = DefaultPollInterval
    /\ exec_pc = "next"
    /\ last_outcome = "timeout"
    /\ fetch_idx = 3
    /\ report_data["weekly_summary"] = "rows"

TerminalStates == {"QUERY_STATE_COMPLETED", "QUERY_STATE_FAILED", "QUERY_STATE_CANCELLED"}

\* C12: the requests of one execute_sql call are the submit, then status
\* polls, then at most one result fetch; the result fetch follows a status
\* poll that returned QUERY_STATE_COMPLETED; QUERY_STATE_FAILED and
\* QUERY_STATE_CANCELLED end the call with an error and no result fetch; any
\* other state leaves the call polling until the maximum wait.
C12_RequestOrder ==
    /\ \A i \in 1..Len(exec_requests) :
          CASE exec_requests[i] = "submit" -> i = 1
            [] exec_requests[i] = "status" -> i > 1
            [] OTHER -> /\ i = Len(exec_requests)
                        /\ i > 2
                        /\ exec_requests[i - 1] = "status"
                        /\ last_state = "QUERY_STATE_COMPLETED"
    /\ last_state \in {"QUERY_STATE_FAILED", "QUERY_STATE_CANCELLED"} =>
          /\ exec_pc = "raised"
          /\ exec_outcome = "query_failed"
          /\ exec_requests[Len(exec_requests)] = "status"
    /\ exec_outcome = "query_failed" =>
          last_state \in {"QUERY_STATE_FAILED", "QUERY_STATE_CANCELLED"}
    /\ last_state \notin (TerminalStates \cup {"none"}) =>
          \/ exec_pc = "loop"
          \/ exec_pc = "raised" /\ exec_outcome \in {"timeout", "http_error"}

C12_Witness ==
    /\ exec_pc = "returned"
    /\ exec_outcome = "rows"
    /\ Len(exec_requests) = 5
    /\ exec_requests[5] = "results"

-----------------------------------------------------------------------------
(* Claims about the web app's job table (SpecJobs, SpecJobsFair).           *)

\* C13: with any number of jobs running at once, api_generate writes a job
\* id's entry only to create it, and after that the entry is written only by
\* the worker of the job it was created for; status polls write nothing.
C13_OnlyOwnWorkerWrites ==
    /\ last_write.by = "api_generate" => last_write.owner = 0
    /\ last_write.by = "worker" =>
          /\ last_write.owner = last_write.worker
          /\ worker_job[last_write.worker] = last_write.job

Terminal(w) == jobs[worker_job[w]].status \in {"done", "error"}

\* C14: every submitted job goes on to the end of _run_generation and its
\* entry then has status done or error, given that every stage returns or
\* raises.
C14_EveryJobEnds ==
    \A w \in Workers :
        (worker_pc[w] = "start") ~> (worker_pc[w] = "finished" /\ Terminal(w))

C14_Witness ==
    /\ \A w \in Workers : worker_pc[w] = "finished"
    /\ worker_job[1] # worker_job[2]
    /\ jobs[worker_job[1]].status = "done"
    /\ jobs[worker_job[2]].status = "error"

CompleteRecords == {RunningEntry, DoneEntry, ErrorEntry}

\* C16: every write of a worker to its entry replaces the entry whole, and a
\* status poll returns one of the records written whole.
C16_WholesaleWrites ==
    /\ last_write.by = "worker" => last_write.kind = "replace"
    /\ observed \in CompleteRecords \cup {NotPolled, NotFound}

\* the status of the job of submission w, from where its worker is
JobStatus(w) ==
    IF worker_result[w] # "none" THEN worker_result[w] ELSE "running"

Issued(id) == \E w \in Workers : worker_job[w] = id

\* C25: at every moment after api_generate has returned a job id, a status
\* request for that id returns the current status of the job the id was
\* returned for, one of running, done and error; a request for an id never
\* issued returns the 404 answer; and serving a request leaves the table as
\* it was.
C25_PollReturnsCurrentStatus ==
    [][/\ \A id \in JobIds :
            IF Issued(id)
            THEN /\ api_status(id) # NotFound
                 /\ api_status(id).status \in {"running", "done", "error"}
                 /\ \A w \in Workers :
                       worker_job[w] = id => api_status(id).status = JobStatus(w)
            ELSE api_status(id) = NotFound
       /\ observed' # observed => jobs' = jobs]_vars

\* C26: done and error are absorbing. An entry with status done or error is
\* not changed by a later step of any worker, and the worker of a job
\* stores one terminal record and never a second one.
C26_TerminalIsAbsorbing ==
    [][/\ \A id \in JobIds :
            (jobs[id].status \in {"done", "error"} /\ jobs'[id] # jobs[id])
                => last_write'.by # "worker"
       /\ \A w \in Workers :
            worker_result[w] # "none" => worker_result'[w] = worker_result[w]]_vars

-----------------------------------------------------------------------------
(* Claims about the order of the stages of one run (SpecPipe).              *)

StageRank(pc) ==
    CASE pc = "start" -> 0
      [] pc \in {"sample", "construct", "fetching", "filter"} -> 1
      [] pc = "charts" -> 2
      [] pc = "document" -> 3
      [] OTHER -> 4

MessageRank(text) ==
    CASE text = "Initializing..." -> 0
      [] text = "Fetching data..." -> 1
      [] text = "Generating charts..." -> 2
      [] text = "Building PDF..." -> 3
      [] OTHER -> 4

\* C15: within one run the stages come in the order fetch, chart, document:
\* a step stays in its stage, enters the next one or ends the run; the chart
\* stage is entered with the fetch stage returned and nothing charted yet,
\* the document stage with the charts returned and nothing written yet; and
\* while a web job is running its message only moves forward through
\* Initializing, Fetching data, Generating charts, Building PDF, in step
\* with the stage.
C15_StagesInOrder ==
    [][/\ \/ StageRank(pipe_pc') = StageRank(pipe_pc)
          \/ StageRank(pipe_pc') = StageRank(pipe_pc) + 1
          \/ pipe_pc' = "finished"
       /\ pipe_pc' = "charts" =>
             /\ \A k \in ExpectedKeys : report_data'[k] # "absent"
             /\ use_sample \/ fetch_idx' > Len(FetchPlan)
             /\ charts' = {} /\ artifact' = "none"
       /\ pipe_pc' = "document" =>
             /\ pipe_pc = "charts"
             /\ charts' = FixedCharts
             /\ artifact' = "none"
       /\ (entry = "web" /\ pipe_status' = "running") =>
             /\ MessageRank(message') >= MessageRank(message)
             /\ MessageRank(message') <= MessageRank(message) + 1
             /\ pipe_pc' # "start" => MessageRank(message') = StageRank(pipe_pc')
      ]_vars

C15_Witness ==
    /\ entry = "web"
    /\ pipe_pc = "document"
    /\ pipe_status = "running"
    /\ message = "Building PDF..."
    /\ charts = FixedCharts
    /\ requested = ExpectedKeys

-----------------------------------------------------------------------------
(* Claims about the chart stage (SpecPipe).                                 *)

C18_OneChartPerSelectedVault ==
    (/\ entry = "web"
     /\ \/ pipe_pc = "document"
        \/ pipe_pc = "finished" /\ failure # "credential")
        => vault_charts = selected_vaults

\* C20: in a run with the sample data source and the PDF target, every image
\* the chart mapping names exists when the assembly of the document begins,
\* and the run ends with the artifact written.
C20_SamplePdfEndToEnd ==
    (use_sample /\ entry \in {"cli", "web"}) =>
        /\ pipe_pc = "document" =>
              \A k \in charts : chart_files[k] # "none"
        /\ (pipe_pc = "finished" /\ failure # "write") => artifact = "written"

-----------------------------------------------------------------------------
(* Claims about the Sample data source (SpecPipe).                          *)

ProducedKeys == {k \in DataKeys : report_data[k] # "absent"}

\* C24: with the Sample data source no DuneDataFetcher is constructed, no
\* request is sent, the run does not fail for a missing credential, and once
\* the data is produced its keys are the same eight on every run.
C24_SampleNeedsNoCredential ==
    use_sample =>
        /\ pipe_pc \notin {"construct", "fetching"}
        /\ requested = {}
        /\ last_outcome = "none"
        /\ failure # "credential"
        /\ pipe_pc \in {"filter", "charts", "document", "finished"}
              => ProducedKeys = ExpectedKeys

C24_Witness ==
    /\ use_sample
    /\ entry = "cli"
    /\ api_key = ""
    /\ env_key = ""
    /\ pipe_pc = "finished"
    /\ artifact = "written"

-----------------------------------------------------------------------------
(* Claims about the wording of the document (SpecDoc).                      *)

\* the dollars one step of the last printed decimal place stands for
PlaceValue(unit) ==
    CASE unit = "B" -> 10000000
      [] unit = "M" -> 100000
      [] unit = "K" -> 100

Distance(a, b) == IF a >= b THEN a - b ELSE b - a

\* the passage states the amount v, to the precision of what it prints
States(text, v) ==
    /\ text.branch = "nonzero"
    /\ text.amount.scaled >= 1
    /\ IF text.amount.unit = ""
       THEN text.amount.scaled = v * 100
       ELSE 2 * Distance(text.amount.scaled * PlaceValue(text.amount.unit), v)
                <= PlaceValue(text.amount.unit)

\* C19: the PDF and the HTML document word the realized bad debt as zero
\* exactly when weekly_summary is empty or its total_bad_debt_usd is 0, and
\* state the amount otherwise; the TLDR sentence and the Bad Debt Overview
\* paragraph take the same branch.
C19_ZeroBadDebtBranch ==
    doc_pc = "rendered" =>
        /\ doc_text.tldr.branch = doc_text.overview.branch
        /\ doc_text.tldr.branch = "zero"
              <=> (doc_summary.empty \/ doc_summary.total_bad_debt_usd = 0)
        /\ doc_text.tldr.branch # "zero" =>
              /\ States(doc_text.tldr, doc_summary.total_bad_debt_usd)
              /\ States(doc_text.overview, doc_summary.total_bad_debt_usd)

C19_Witness ==
    /\ doc_pc = "rendered"
    /\ doc_target = "html"
    /\ doc_summary = SummaryRow(0)
    /\ doc_text.tldr.branch = "zero"

\* C30: a rendered document does not state zero bad debt when
\* total_bad_debt_usd is not 0: every passage that mentions realized bad
\* debt, the Key Takeaways included, takes the branch of the TLDR sentence.
C30_NoZeroClaimWithBadDebt ==
    doc_pc = "rendered" =>
        /\ doc_text.overview.branch = doc_text.tldr.branch
        /\ doc_text.takeaways.branch = doc_text.tldr.branch
        /\ (~doc_summary.empty /\ doc_summary.total_bad_debt_usd # 0) =>
              /\ doc_text.tldr.branch # "zero"
              /\ doc_text.overview.branch # "zero"
              /\ doc_text.takeaways.branch # "zero"

-----------------------------------------------------------------------------
(* Claims about what concurrent web jobs share (SpecShared).                *)

AllJobsOver == \A w \in Workers : job_pc[w] \in {"done", "error"}

\* C27: once all the concurrent live-mode jobs have finished,
\* config.ALL_TRACKED_VAULTS is what it was before the first one started,
\* and the list in place while a job fetches is the one filtered by that
\* job's own selection.
C27_OverrideFullyUndone ==
    /\ AllJobsOver => config_vaults = ALL_TRACKED_VAULTS
    /\ \A w \in Workers :
          job_seen[w] # Unread => job_seen[w] = ActiveVaults(job_selected[w])

\* C28: concurrent jobs write distinct files. No file of the output
\* directory, report or chart image, is written by two jobs, and the done
\* record of a job names the file this job wrote, with the size of its own
\* bytes.
C28_DistinctOutputPaths ==
    /\ \A p \in Paths : Cardinality(writers[p]) <= 1
    /\ \A w \in Workers :
          job_pc[w] = "done" =>
              /\ job_reported[w].path = job_path[w]
              /\ job_reported[w].bytes_of = w

====
